---- MODULE Spec2Model ----
(***************************************************************************)
(* Model of lambda_handler.py: the ASGI application `app` (two Starlette   *)
(* routes onto one McpAsgiApp endpoint), the process-wide `_server_task`   *)
(* handle with `_ensure_server_running`, the background task `_run_server` *)
(* and the shared `transport` it attaches to.                              *)
(*                                                                         *)
(* Everything runs on one asyncio event loop.  The loop is modelled by its *)
(* FIFO queue of runnable callbacks (`ready`): a coroutine runs from one   *)
(* suspension point to the next as one action, `asyncio.create_task`       *)
(* appends the new task's first step to the queue, and an expired          *)
(* `asyncio.sleep` appends the sleeper.  Invocations arrive at any time.   *)
(*                                                                         *)
(* The protocol engine (server.run) is opaque: it reads one request from   *)
(* the inbound stream per step and writes one reply, or terminates.        *)
(***************************************************************************)
EXTENDS Integers, Sequences, FiniteSets, TLC

\* ---- bounds of the model ------------------------------------------------
MaxInv == 2      \* invocations served by the process instance
MaxTasks == 2    \* engine tasks the process instance may create
MaxId == 2       \* distinct JSON-RPC request ids a body may carry

Invs == 1..MaxInv
Tasks == 1..MaxTasks
Ids == 1..MaxId

\* ---- inputs -------------------------------------------------------------
Methods == {"GET", "POST", "DELETE", "HEAD", "PUT"}
Paths == {"/mcp", "/mcp/", "/other"}

\* body 0: no JSON-RPC request in the body (absent or malformed);
\* body k > 0: a well-formed JSON-RPC request whose id is k.
\* Every method is sent to "/mcp", POST with every body; the trailing-slash
\* route and the unrouted path are sent a GET and a POST, the POST to "/mcp/"
\* with a request in its body.
Requests ==
  { r \in [method : Methods, path : Paths, body : 0..MaxId] :
      /\ r.method # "POST" => r.body = 0
      /\ r.path # "/mcp" => r.method \in {"GET", "POST"}
      /\ r.path = "/mcp/" /\ r.method = "POST" => r.body = 1
      /\ r.path = "/other" => r.body = 0 }

NoReq == [method |-> "-", path |-> "-", body |-> 0]

VARIABLES
  server_task,      \* _server_task: 0 is None, else the task it refers to
  taskState,        \* per engine task: absent, scheduled, running, failed, completed
  writer,           \* transport._read_stream_writer: 0 is None, else the task whose connect() set it
  request_streams,  \* transport._request_streams: JSON-RPC id -> invocation holding its reader (0: none)
  inbound,          \* requests sent on the read stream and not yet received by the run loop
  ready,            \* the event loop's FIFO queue of runnable callbacks
  pc,               \* per invocation: idle, ready, sleeping, woken, pending, resumed, done
  req,              \* per invocation: its request
  resp,             \* per invocation: the responses sent for it, in order
  raised,           \* per invocation: an exception left McpAsgiApp.__call__
  delivery,         \* per invocation: what ended its wait: none, reply, closed
  replyFor,         \* per invocation: the invocation whose request the received reply answers
  forwarded,        \* invocations routed to McpAsgiApp.__call__
  early,            \* invocations that entered handle_request before the current task ran connect()
  engineRead,       \* invocations whose request the engine's run loop has read
  sentTo,           \* per invocation: the task whose stream writer its request was sent on (0: none)
  stalled,          \* engine tasks whose run loop has stopped reading and replying for good
  lateInv           \* invocations that arrived while the task of the handle was stalled

vars == << server_task, taskState, writer, request_streams, inbound, ready, pc,
           req, resp, raised, delivery, replyFor, forwarded, early, engineRead,
           sentTo, stalled, lateInv >>

\* ---- asyncio.Task ------------------------------------------------------
Done(t) == taskState[t] \in {"failed", "completed"}

Alive(t) == taskState[t] \in {"scheduled", "running"}

Created == { t \in Tasks : taskState[t] # "absent" }

Terminated == { t \in Tasks : Done(t) }

\* a guard that asks whether the task has reached its run loop instead of done()
NeedsStartUnlessRunning ==
  IF server_task = 0 THEN TRUE ELSE taskState[server_task] # "running"

\* a guard that starts a task on every call
NeedsStartAlways == TRUE

\* a guard that forgets the done() check
NeedsStartOnlyIfNone == server_task = 0

\* a guard with the test inverted: start when a task is alive, skip when none is
NeedsStartInverted == IF server_task = 0 THEN FALSE ELSE ~Done(server_task)

\* the condition of `if _server_task is None or _server_task.done()`
NeedsStart == IF server_task = 0 THEN TRUE ELSE Done(server_task)

\* the task object asyncio.create_task returns: a fresh one
NewTask == Cardinality(Created) + 1

\* ---- Starlette routing --------------------------------------------------
RoutePaths == {"/mcp", "/mcp/"}

\* Route(..., methods=["GET", "POST", "DELETE"]); Starlette's Route adds HEAD
\* to the method set of every route that lists GET.
RouteMethods ==
  LET listed == {"GET", "POST", "DELETE"}
  IN  IF "GET" \in listed THEN listed \cup {"HEAD"} ELSE listed

Routed(r) == r.path \in RoutePaths /\ r.method \in RouteMethods

\* the router's answer to a request it does not forward: no route matches the
\* path (Not Found), or a route matches the path but not the method
RejectStatus(r) == IF r.path \in RoutePaths THEN "405" ELSE "404"

\* ---- the event loop -----------------------------------------------------
InvJob(i) == << "inv", i >>
EngJob(t) == << "eng", t >>

Queued(job, q) == \E n \in 1..Len(q) : q[n] = job

Enqueue(q, job) == IF Queued(job, q) THEN q ELSE Append(q, job)

Running(job) == ready # << >> /\ Head(ready) = job

RECURSIVE EnqueueAll(_, _)
EnqueueAll(q, S) ==
  IF S = {} THEN q
  ELSE LET i == CHOOSE x \in S : \A y \in S : x <= y
       IN  EnqueueAll(Append(q, InvJob(i)), S \ {i})

Without(q, job) == SelectSeq(q, LAMBDA j : j # job)

\* ---- transport ----------------------------------------------------------
\* the read stream's writer is usable: connect() of a task that still runs set it
WriterOpen == writer # 0 /\ taskState[writer] = "running"

Init ==
  /\ server_task = 0
  /\ taskState = [t \in Tasks |-> "absent"]
  /\ writer = 0
  /\ request_streams = [k \in Ids |-> 0]
  /\ inbound = << >>
  /\ ready = << >>
  /\ pc = [i \in Invs |-> "idle"]
  /\ req = [i \in Invs |-> NoReq]
  /\ resp = [i \in Invs |-> << >>]
  /\ raised = [i \in Invs |-> FALSE]
  /\ delivery = [i \in Invs |-> "none"]
  /\ replyFor = [i \in Invs |-> 0]
  /\ forwarded = {}
  /\ early = {}
  /\ engineRead = {}
  /\ sentTo = [i \in Invs |-> 0]
  /\ stalled = {}
  /\ lateInv = {}

\* The external host hands the process one more invocation: the adapter
\* schedules app(scope, receive, send) on the loop.
Arrive(i, r) ==
  /\ pc[i] = "idle"
  /\ \A j \in Invs : j < i => pc[j] # "idle"
  /\ pc' = [pc EXCEPT ![i] = "ready"]
  /\ req' = [req EXCEPT ![i] = r]
  /\ ready' = Append(ready, InvJob(i))
  /\ lateInv' = IF server_task \in stalled THEN lateInv \cup {i} ELSE lateInv
  /\ UNCHANGED << server_task, taskState, writer, request_streams, inbound, resp,
                  raised, delivery, replyFor, forwarded, early, engineRead,
                  sentTo, stalled >>

\* The router answers a request that matches no route, without calling the endpoint.
RouteReject(i) ==
  /\ Running(InvJob(i))
  /\ pc[i] = "ready"
  /\ ~Routed(req[i])
  /\ resp' = [resp EXCEPT ![i] = Append(@, RejectStatus(req[i]))]
  /\ pc' = [pc EXCEPT ![i] = "done"]
  /\ ready' = Tail(ready)
  /\ UNCHANGED << server_task, taskState, writer, request_streams, inbound, req,
                  raised, delivery, replyFor, forwarded, early, engineRead,
                  sentTo, stalled, lateInv >>

\* _clean_up_memory_streams(request_id) called by invocation i: closes and
\* removes whatever reply stream is registered under the id; the invocations
\* other than i that wait on that stream see it end.
CleanupWakes(i, k) ==
  LET owner == request_streams[k]
  IN  IF owner # 0 /\ owner # i /\ pc[owner] = "pending" THEN {owner} ELSE {}

\* transport.handle_request(scope, receive, send) for invocation i, entered with
\* the loop's queue q; it runs to its first suspension point or to its end.
\*   POST and GET need the read stream's writer and raise ValueError without it;
\*   a POST body that is no JSON-RPC request is answered 400;
\*   a POST request registers a reply stream under its JSON-RPC id, writes the
\*   request to the read stream and waits on the reply stream;
\*   GET without an event-stream Accept header is answered 406;
\*   DELETE (no session id) and every other method are answered 405.
\* An exception that leaves McpAsgiApp.__call__ before a response started is
\* answered 500 by the application's error middleware.
HandleRequest(i, q) ==
  LET r == req[i]
      k == r.body
  IN
  /\ early' = IF server_task # 0 /\ taskState[server_task] = "scheduled"
              THEN early \cup {i} ELSE early
  /\ sentTo' = IF r.method = "POST" /\ k # 0 THEN [sentTo EXCEPT ![i] = writer] ELSE sentTo
  /\ IF r.method \in {"POST", "GET"} /\ writer = 0
     THEN /\ raised' = [raised EXCEPT ![i] = TRUE]
          /\ resp' = [resp EXCEPT ![i] = Append(@, "500")]
          /\ pc' = [pc EXCEPT ![i] = "done"]
          /\ ready' = q
          /\ UNCHANGED << request_streams, inbound, delivery >>
     ELSE IF r.method # "POST" \/ k = 0
     THEN /\ resp' = [resp EXCEPT ![i] =
                 Append(@, IF r.method = "POST" THEN "400"
                           ELSE IF r.method = "GET" THEN "406" ELSE "405")]
          /\ pc' = [pc EXCEPT ![i] = "done"]
          /\ ready' = q
          /\ UNCHANGED << raised, request_streams, inbound, delivery >>
     ELSE IF WriterOpen
     THEN /\ request_streams' = [request_streams EXCEPT ![k] = i]
          /\ inbound' = Append(inbound, [id |-> k, from |-> i])
          /\ pc' = [pc EXCEPT ![i] = "pending"]
          /\ ready' = IF writer \in stalled THEN q ELSE Enqueue(q, EngJob(writer))
          /\ UNCHANGED << raised, resp, delivery >>
     ELSE \* the writer belongs to a terminated task: send raises, the transport
          \* answers 500, and its second send on that writer raises out of the call
          /\ raised' = [raised EXCEPT ![i] = TRUE]
          /\ resp' = [resp EXCEPT ![i] = Append(@, "500")]
          /\ pc' = [pc EXCEPT ![i] = "done"]
          /\ request_streams' = [request_streams EXCEPT ![k] = 0]
          /\ ready' = q
          /\ UNCHANGED << inbound, delivery >>

\* McpAsgiApp.__call__, first step, `_server_task` None or done: create the
\* task, store the handle, and suspend in asyncio.sleep(0.05).
EnsureStart(i) ==
  /\ Running(InvJob(i))
  /\ pc[i] = "ready"
  /\ Routed(req[i])
  /\ NeedsStart
  /\ NewTask \in Tasks
  /\ server_task' = NewTask
  /\ taskState' = [taskState EXCEPT ![NewTask] = "scheduled"]
  /\ ready' = Append(Tail(ready), EngJob(NewTask))
  /\ pc' = [pc EXCEPT ![i] = "sleeping"]
  /\ forwarded' = forwarded \cup {i}
  /\ UNCHANGED << writer, request_streams, inbound, req, resp, raised, delivery,
                  replyFor, early, engineRead, sentTo, stalled, lateInv >>

\* McpAsgiApp.__call__, first step, `_server_task` refers to a task that is not
\* done: _ensure_server_running returns without suspending and handle_request
\* is entered in the same step.
EnsureSkip(i) ==
  /\ Running(InvJob(i))
  /\ pc[i] = "ready"
  /\ Routed(req[i])
  /\ ~NeedsStart
  /\ forwarded' = forwarded \cup {i}
  /\ HandleRequest(i, Tail(ready))
  /\ UNCHANGED << server_task, taskState, writer, req, replyFor, engineRead,
                  stalled, lateInv >>

\* asyncio.sleep(0.05) expires: the sleeper becomes runnable.
TimerFire(i) ==
  /\ pc[i] = "sleeping"
  /\ pc' = [pc EXCEPT ![i] = "woken"]
  /\ ready' = Append(ready, InvJob(i))
  /\ UNCHANGED << server_task, taskState, writer, request_streams, inbound, req,
                  resp, raised, delivery, replyFor, forwarded, early, engineRead,
                  sentTo, stalled, lateInv >>

\* McpAsgiApp.__call__ resumes after the sleep and enters handle_request.
WakeHandle(i) ==
  /\ Running(InvJob(i))
  /\ pc[i] = "woken"
  /\ HandleRequest(i, Tail(ready))
  /\ UNCHANGED << server_task, taskState, writer, req, replyFor, forwarded, engineRead,
                  stalled, lateInv >>

\* handle_request resumes: its reply stream delivered a reply (answered 200) or
\* ended without one (answered 500); then it cleans up the stream of its id.
\* A stream ended by this cleanup is recorded as "cleaned", one ended by the
\* exit of connect() as "closed".
Resume(i) ==
  LET k == req[i].body
      woken == CleanupWakes(i, k)
  IN
  /\ Running(InvJob(i))
  /\ pc[i] = "resumed"
  /\ resp' = [resp EXCEPT ![i] = Append(@, IF delivery[i] = "reply" THEN "200" ELSE "500")]
  /\ request_streams' = [request_streams EXCEPT ![k] = 0]
  /\ pc' = [j \in Invs |-> IF j = i THEN "done"
                           ELSE IF j \in woken THEN "resumed" ELSE pc[j]]
  /\ delivery' = [j \in Invs |-> IF j \in woken THEN "cleaned" ELSE delivery[j]]
  /\ ready' = EnqueueAll(Tail(ready), woken)
  /\ UNCHANGED << server_task, taskState, writer, inbound, req, raised, replyFor,
                  forwarded, early, engineRead, sentTo, stalled, lateInv >>

\* _run_server, first step: transport.connect() creates the streams and sets
\* _read_stream_writer, then server.run waits for the first message.
EngineAttach(t) ==
  /\ Running(EngJob(t))
  /\ taskState[t] = "scheduled"
  /\ taskState' = [taskState EXCEPT ![t] = "running"]
  /\ writer' = t
  /\ ready' = Tail(ready)
  /\ UNCHANGED << server_task, request_streams, inbound, pc, req, resp, raised,
                  delivery, replyFor, forwarded, early, engineRead,
                  sentTo, stalled, lateInv >>

\* The reply to a message with JSON-RPC id k goes to the reply stream that is
\* registered under k when the reply is written (the transport's message router).
ReplyTarget(k) ==
  LET owner == request_streams[k]
  IN  IF owner # 0 /\ pc[owner] = "pending" THEN {owner} ELSE {}

\* server.run: the run loop reads the next request and writes its reply.
EngineRead(t) ==
  LET m == Head(inbound)
      target == ReplyTarget(m.id)
      q == EnqueueAll(Tail(ready), target)
  IN
  /\ Running(EngJob(t))
  /\ taskState[t] = "running"
  /\ t \notin stalled
  /\ inbound # << >>
  /\ inbound' = Tail(inbound)
  /\ engineRead' = engineRead \cup {m.from}
  /\ pc' = [j \in Invs |-> IF j \in target THEN "resumed" ELSE pc[j]]
  /\ delivery' = [j \in Invs |-> IF j \in target THEN "reply" ELSE delivery[j]]
  /\ replyFor' = [j \in Invs |-> IF j \in target THEN m.from ELSE replyFor[j]]
  /\ ready' = IF Tail(inbound) # << >> THEN Append(q, EngJob(t)) ELSE q
  /\ UNCHANGED << server_task, taskState, writer, request_streams, req, resp,
                  raised, forwarded, early, sentTo, stalled, lateInv >>

\* the invocations whose wait ends when connect() exits: those blocked in the
\* send of a request not yet read, and those whose reply stream is registered
StreamWaiters ==
  { j \in Invs : /\ pc[j] = "pending"
                 /\ \/ \E k \in Ids : request_streams[k] = j
                    \/ \E n \in 1..Len(inbound) : inbound[n].from = j }

\* a termination that also clears the handle, as a done-callback resetting
\* `_server_task` would
EngineFailClearsHandle(t, outcome) ==
  /\ taskState[t] = "running"
  /\ t \notin stalled
  /\ Cardinality(Created) < MaxTasks
  /\ taskState' = [taskState EXCEPT ![t] = outcome]
  /\ server_task' = 0
  /\ request_streams' = [k \in Ids |-> 0]
  /\ inbound' = << >>
  /\ pc' = [j \in Invs |-> IF j \in StreamWaiters THEN "resumed" ELSE pc[j]]
  /\ delivery' = [j \in Invs |-> IF j \in StreamWaiters THEN "closed" ELSE delivery[j]]
  /\ ready' = EnqueueAll(Without(ready, EngJob(t)), StreamWaiters)
  /\ UNCHANGED << writer, req, resp, raised, replyFor, forwarded,
                  early, engineRead, sentTo, stalled, lateInv >>

\* The engine task terminates (server.run returns or raises): connect() exits,
\* closing the registered reply streams and both ends of the stream pair.
EngineFail(t, outcome) ==
  /\ taskState[t] = "running"
  /\ t \notin stalled
  /\ Cardinality(Created) < MaxTasks
  /\ taskState' = [taskState EXCEPT ![t] = outcome]
  /\ request_streams' = [k \in Ids |-> 0]
  /\ inbound' = << >>
  /\ pc' = [j \in Invs |-> IF j \in StreamWaiters THEN "resumed" ELSE pc[j]]
  /\ delivery' = [j \in Invs |-> IF j \in StreamWaiters THEN "closed" ELSE delivery[j]]
  /\ ready' = EnqueueAll(Without(ready, EngJob(t)), StreamWaiters)
  /\ UNCHANGED << server_task, writer, req, resp, raised, replyFor, forwarded,
                  early, engineRead, sentTo, stalled, lateInv >>

\* The engine stalls: the task stays alive (not done), its streams stay open,
\* but its run loop never again reads a request or writes a reply.
EngineStall(t) ==
  /\ taskState[t] = "running"
  /\ t \notin stalled
  /\ stalled' = stalled \cup {t}
  /\ ready' = Without(ready, EngJob(t))
  /\ UNCHANGED << server_task, taskState, writer, request_streams, inbound, pc,
                  req, resp, raised, delivery, replyFor, forwarded, early,
                  engineRead, sentTo, lateInv >>

Next ==
  \/ \E i \in Invs, r \in Requests : Arrive(i, r)
  \/ \E i \in Invs : RouteReject(i)
  \/ \E i \in Invs : EnsureStart(i)
  \/ \E i \in Invs : EnsureSkip(i)
  \/ \E i \in Invs : TimerFire(i)
  \/ \E i \in Invs : WakeHandle(i)
  \/ \E i \in Invs : Resume(i)
  \/ \E t \in Tasks : EngineAttach(t)
  \/ \E t \in Tasks : EngineRead(t)
  \/ \E t \in Tasks, outcome \in {"failed", "completed"} : EngineFail(t, outcome)
  \/ \E t \in Tasks : EngineStall(t)

Spec == Init /\ [][Next]_vars

\* the event loop runs every runnable callback, and every timer expires
LoopStep ==
  \/ \E i \in Invs : RouteReject(i) \/ EnsureStart(i) \/ EnsureSkip(i) \/ WakeHandle(i) \/ Resume(i)
  \/ \E t \in Tasks : EngineAttach(t) \/ EngineRead(t)

FairSpec ==
  /\ Spec
  /\ WF_vars(LoopStep)
  /\ WF_vars(\E i \in Invs : TimerFire(i))

TypeOK ==
  /\ server_task \in 0..MaxTasks
  /\ taskState \in [Tasks -> {"absent", "scheduled", "running", "failed", "completed"}]
  /\ writer \in 0..MaxTasks
  /\ request_streams \in [Ids -> 0..MaxInv]
  /\ pc \in [Invs -> {"idle", "ready", "sleeping", "woken", "pending", "resumed", "done"}]
  /\ delivery \in [Invs -> {"none", "reply", "closed", "cleaned"}]
  /\ sentTo \in [Invs -> 0..MaxTasks]
  /\ stalled \subseteq Tasks /\ lateInv \subseteq Invs
  /\ replyFor \in [Invs -> 0..MaxInv]
  /\ forwarded \subseteq Invs /\ early \subseteq Invs /\ engineRead \subseteq Invs

\* ---- claims ---------------------------------------------------------------

\* C1: in every reachable state at most one engine task is alive (created and
\* not yet terminated), however the invocations that call
\* _ensure_server_running interleave.
C1_AtMostOneAlive == Cardinality({ t \in Tasks : Alive(t) }) <= 1

\* two invocations have passed _ensure_server_running before the task ran its
\* first step, and one task exists
C1_Witness ==
  /\ Cardinality(forwarded) >= 2
  /\ Cardinality(Created) = 1
  /\ \E t \in Tasks : taskState[t] = "scheduled"

\* C2: no invocation enters handle_request before the task that
\* `_server_task` refers to has run connect().
C2_NoHandleBeforeAttach == early = {}

C4_AtMostOneEver == Cardinality(Created) <= 1

\* C4 as amended: as long as no engine task has terminated, at most one engine
\* task has been started, however many invocations called
\* _ensure_server_running.
C4_AtMostOneUntilTermination == Terminated = {} => Cardinality(Created) <= 1

\* every invocation of the bound was forwarded and has ended, no task has
\* terminated, and one task was started
C4_Witness ==
  /\ Terminated = {}
  /\ Cardinality(Created) = 1
  /\ Cardinality(forwarded) >= 2
  /\ \A i \in forwarded : pc[i] = "done"

\* the engine task an invocation waits on has terminated with an error while
\* the invocation is pending in handle_request
PendingOnFailedTask(i) ==
  pc[i] = "pending" /\ writer # 0 /\ taskState[writer] = "failed"

ResolvedServerError(i) == pc[i] = "done" /\ resp[i] = << "500" >>

\* C5: when the engine task terminates with an error while a handle_request
\* call is pending, that call eventually ends, answered with a server error.
C5_PendingResolvesToServerError ==
  \A i \in Invs : [](PendingOnFailedTask(i) => <>ResolvedServerError(i))

\* C6: a call of _ensure_server_running that finds the handle referring to a
\* terminated task creates a new task, stores a handle distinct from the old
\* one, and its caller suspends in the sleep before it enters handle_request.
C6_RestartAfterTermination ==
  [][ \A i \in Invs :
        ( /\ server_task # 0
          /\ taskState[server_task] \in {"failed", "completed"}
          /\ i \notin forwarded
          /\ i \in forwarded' )
        => ( /\ server_task' # server_task
             /\ server_task' \notin Created
             /\ taskState'[server_task'] = "scheduled"
             /\ pc'[i] = "sleeping"
             /\ resp'[i] = << >>
             /\ i \notin early' ) ]_vars

\* a second task has been created after the first terminated, and its creator
\* is suspended in the sleep
C6_Witness ==
  /\ server_task # 0
  /\ Alive(server_task)
  /\ \E t \in Tasks : t # server_task /\ Done(t)
  /\ \E i \in forwarded : pc[i] = "sleeping"

\* the endpoint and methods the routes are declared with
Designated(r) == r.path \in {"/mcp", "/mcp/"} /\ r.method \in {"GET", "POST", "DELETE"}

\* C7: the step that answers an invocation which fails routing answers 404 and
\* leaves the handle, the tasks and both channels unchanged, without forwarding.
C7_RejectedLeavesEngine ==
  [][ \A i \in Invs :
        (pc[i] = "ready" /\ pc'[i] # "ready" /\ ~Designated(req[i]))
        => ( /\ resp'[i] = << "404" >>
             /\ i \notin forwarded'
             /\ UNCHANGED << server_task, taskState, writer, request_streams, inbound >> ) ]_vars

\* C8: an invocation is forwarded to McpAsgiApp.__call__ if and only if its
\* path is "/mcp" or "/mcp/" and its method is GET, POST or DELETE.
C8_ForwardedIffDesignated ==
  \A i \in Invs :
    pc[i] \notin {"idle", "ready"} => (i \in forwarded <=> Designated(req[i]))

\* C9: every invocation ends with exactly one response and no exception
\* leaves McpAsgiApp.__call__.
C9_OneResponseNoRaise ==
  \A i \in Invs :
    /\ ~raised[i]
    /\ Len(resp[i]) <= 1
    /\ pc[i] = "done" => Len(resp[i]) = 1

\* C10: an invocation that receives a reply receives the reply to its own
\* request.
C10_OwnReply ==
  \A i \in Invs : delivery[i] = "reply" => replyFor[i] = i

\* the round trip of invocation i ended in a server error because the engine
\* task's streams were closed: its reply stream ended when connect() exited, or
\* its send met the writer of a task that had exited
EngineRoundTripError(i) ==
  /\ pc[i] = "done"
  /\ resp[i] = << "500" >>
  /\ sentTo[i] # 0
  /\ delivery[i] \in {"closed", "none"}

\* C11: once a round trip has ended in an engine round-trip error, the task it
\* used is done, and while the handle still refers to that task the next call
\* of _ensure_server_running creates a new task and stores it.
C11_ErrorInvalidatesHandle ==
  [][ \A i \in Invs :
        EngineRoundTripError(i)
        => /\ taskState[sentTo[i]] \in {"failed", "completed"}
           /\ \A j \in Invs :
                (server_task = sentTo[i] /\ j \notin forwarded /\ j \in forwarded')
                => ( /\ server_task' \notin Created
                     /\ server_task' # server_task
                     /\ taskState'[server_task'] = "scheduled" ) ]_vars

\* an invocation was answered 500 when its reply stream closed, and a later
\* invocation has started a new task
C11_Witness ==
  \E i \in Invs :
    /\ EngineRoundTripError(i)
    /\ delivery[i] = "closed"
    /\ server_task # sentTo[i]
    /\ taskState[server_task] = "scheduled"

\* C12: a call of _ensure_server_running that finds the handle referring to a
\* task that is not done creates no task, leaves the handle unchanged and does
\* not suspend (handle_request is entered in the same step); the call suspends
\* in the sleep exactly when a task was created.
C12_LiveTaskReturnsImmediately ==
  [][ \A i \in Invs :
        (i \notin forwarded /\ i \in forwarded')
        => /\ (server_task # 0 /\ taskState[server_task] \in {"scheduled", "running"})
                => ( /\ server_task' = server_task
                     /\ taskState' = taskState
                     /\ pc'[i] \in {"pending", "done"} )
           /\ pc'[i] = "sleeping" <=> Created' # Created ]_vars

\* while the creator of the only task is still in its sleep, another invocation
\* has passed _ensure_server_running and is in or past handle_request
C12_Witness ==
  /\ Cardinality(Created) = 1
  /\ Terminated = {}
  /\ \E i, j \in forwarded :
       /\ i # j
       /\ pc[i] = "sleeping"
       /\ pc[j] \in {"pending", "done"}

\* C13: only a call of _ensure_server_running that finds the handle None or
\* done changes the handle or creates a task; the termination of the task,
\* handle_request, routing and the responses leave both as they are.
C13_OnlyEnsureMutatesHandle ==
  [][ (server_task' # server_task \/ Created' # Created)
      => \E i \in Invs :
           /\ pc[i] = "ready"
           /\ i \notin forwarded
           /\ i \in forwarded'
           /\ (server_task = 0 \/ taskState[server_task] \in {"failed", "completed"}) ]_vars

\* the task has terminated, an invocation pending on it has been answered, and
\* the handle still refers to the terminated task, the only one created
C13_Witness ==
  /\ server_task # 0
  /\ Done(server_task)
  /\ Created = {server_task}
  /\ \E i \in Invs : EngineRoundTripError(i) /\ delivery[i] = "closed"

\* the invocation needs a round trip through the engine: it is forwarded and
\* carries a JSON-RPC request
NeedsRoundTrip(r) == Routed(r) /\ r.method = "POST" /\ r.body # 0

InHandle(i) == i \in forwarded /\ pc[i] \in {"pending", "resumed", "done"}

\* C15: an invocation enters handle_request only after its call of
\* _ensure_server_running has returned, so whenever an invocation is inside
\* handle_request (or past it) the handle is not None.
C15_HandleSetInsideHandle ==
  /\ \A i \in Invs : InHandle(i) => server_task # 0
  /\ \A i \in Invs : (sentTo[i] # 0 \/ delivery[i] # "none" \/ raised[i]) => InHandle(i)

\* two invocations are waiting inside handle_request, and the handle is set
C15_Witness ==
  /\ server_task # 0
  /\ Cardinality({ i \in Invs : InHandle(i) /\ pc[i] = "pending" }) >= 2

\* C16: the handle, once set, never returns to None, and the number of tasks
\* created never exceeds the number of terminated tasks plus one.
C16_HandleStaysSetOneAhead ==
  [][ /\ server_task # 0 => server_task' # 0
      /\ Cardinality(Created') <= Cardinality(Terminated') + 1 ]_vars

\* a second task has been created after the first terminated
C16_Witness ==
  /\ Cardinality(Created) = 2
  /\ Cardinality(Terminated) = 1
  /\ server_task \notin Terminated

====
